---- MODULE Spec2Model ----
(***************************************************************************)
(* The artworks slice of the ArtE store (src/src/store/artworkSlice.ts):   *)
(* the fetch cache keyed by getCacheKey and the batch page, the mapping of *)
(* display pages onto fetch batches, the merge of provider responses into  *)
(* state.artworks.items, and the thunks fetchArtworks / fetchArtworkDetail *)
(* with their pending / fulfilled / rejected reducers.                     *)
(*                                                                         *)
(* A thunk is modelled step by step: createAsyncThunk dispatches pending   *)
(* and runs the payload creator up to its first await synchronously, so    *)
(* the dispatch step reads the store, takes the cache decision and issues  *)
(* the first provider call; each provider response is a later step.  The   *)
(* cache-hit path has no await on a provider: pending and fulfilled follow *)
(* each other with no store action in between and form one step.           *)
(*                                                                         *)
(* The exhibitions slice (src/src/store/exhibitionsSlice.ts) and the item  *)
(* it keeps in localStorage are modelled next to it.                       *)
(*                                                                         *)
(* Strings that take part in getCacheKey are sequences of one-character    *)
(* strings, so that the template literal is modelled as the concatenation  *)
(* it is.                                                                  *)
(***************************************************************************)
EXTENDS Integers, Sequences, FiniteSets, TLC

VARIABLES
    artworks,   \* state.artworks, the slice state (ArtworkState)
    inflight,   \* fetchArtworks thunks dispatched and not yet settled, in dispatch order
    details,    \* fetchArtworkDetail thunks awaiting their provider: the calls they made
    last,       \* the step just taken: its kind and the thunk it settled or started
    loaded,     \* history: <<cacheKey, display page>> of the fulfilled provider fetches that were recorded
    dispatched, \* number of thunks dispatched so far
    probe,      \* a pure helper applied to chosen inputs, with its results
    exhibitions,  \* state.exhibitions, the slice state (ExhibitionsState)
    localStorage  \* the item of window.localStorage under the key 'userExhibitions'

vars == <<artworks, inflight, details, last, loaded, dispatched, probe, exhibitions, localStorage>>

----------------------------------------------------------------------------
(* Constants of the program *)

DISPLAY_PAGE_SIZE == 20
FETCH_BATCH_SIZE == 100

(* Bounds of the model *)

MaxInFlight == 2   \* thunks in flight at once
MaxResponse == 2   \* records in one provider response
MaxDispatch == 2   \* thunks dispatched in one behaviour
MaxStrLen == 1     \* characters in a free-text filter value given to getCacheKey
MaxMergeLen == 4   \* records in a sequence merged on its own
MaxDisplayPage == 30 \* display pages mapped to their batch on their own
MaxSelectLen == 2  \* records in a short collection given to selectPaginatedArtworks
MaxExhibitions == 2 \* exhibitions in state.exhibitions.userExhibitions
MaxTime == 2      \* values of Date.now()
CatalogueSize == 250 \* records in the catalogue a provider serves

----------------------------------------------------------------------------
(* Values *)

NULL == "null"

Sources == {"all", "rijksmuseum", "harvardartmuseums"}

EmptyStr == <<>>

\* the free-text values the list thunk is dispatched with
QueryStrings == {EmptyStr}

\* the display pages requested: 1 and 3 lie in batch 1, 6 in batch 2
Pages == {1, 3, 6}

RijksIds == {"rijks-1"}
HarvardIds == {"harvard-1"}

\* a list record as the transformers build it (id prefixed by the provider)
Summary(id, source) == [id |-> id, source |-> source, detail |-> FALSE]

\* a detail record as the detail transformers build it
Detail(id, source) == [id |-> id, source |-> source, detail |-> TRUE]

\* the ids a detail page is opened with: one of each provider and one of neither
DetailIds == {"rijks-1", "harvard-1", "met-1"}

\* an id as its prefix (up to and including the first '-') and the rest
IdParts ==
    [id \in RijksIds \cup HarvardIds \cup DetailIds |->
        CASE id = "rijks-1"   -> <<"rijks-", "1">>
          [] id = "harvard-1" -> <<"harvard-", "1">>
          [] id = "met-1"     -> <<"met-", "1">>]

\* id.startsWith(prefix), for a prefix ending in '-'
startsWith(id, prefix) == IdParts[id][1] = prefix

\* id.replace(prefix, ''), for an id that starts with the prefix
stripPrefix(id, prefix) == IdParts[id][2]

SeqsUpTo(S, n) == UNION {[1..k -> S] : k \in 0..n}

RijksResponses == SeqsUpTo({Summary(i, "rijksmuseum") : i \in RijksIds}, MaxResponse)
HarvardResponses == SeqsUpTo({Summary(i, "harvardartmuseums") : i \in HarvardIds}, MaxResponse)

ProviderErrors == {"Error fetching artworks"}

Max(a, b) == IF a >= b THEN a ELSE b

\* Math.ceil(a / b) for b > 0
Ceil(a, b) == -((-a) \div b)

Includes(seq, x) == \E i \in 1..Len(seq) : seq[i] = x

----------------------------------------------------------------------------
(* Pure helpers of the slice *)

getCacheKey(query, artist, dateFrom, dateTo, medium, source) ==
    query \o <<":">> \o artist \o <<":">> \o dateFrom \o <<":">> \o dateTo
          \o <<":">> \o medium \o <<":">> \o <<source>>

\* a mapping that rounds down and adds one
displayPageToFetchPageFloor(displayPage) ==
    ((displayPage * DISPLAY_PAGE_SIZE) \div FETCH_BATCH_SIZE) + 1

displayPageToFetchPage(displayPage) ==
    Ceil(displayPage * DISPLAY_PAGE_SIZE, FETCH_BATCH_SIZE)

KeyOfFilters(f) ==
    getCacheKey(f.query, f.artist, f.dateFrom, f.dateTo, f.medium, f.source)

\* fetchedData[cacheKey] && fetchedData[cacheKey].fetched &&
\* fetchedData[cacheKey].fetchedPages.includes(fetchPage)
IsFetched(fetchedData, cacheKey, fetchPage) ==
    /\ cacheKey \in DOMAIN fetchedData
    /\ fetchedData[cacheKey].fetched
    /\ Includes(fetchedData[cacheKey].fetchedPages, fetchPage)

\* the cache check with the forceRefresh test left out
CacheHitIgnoringForce(fetchedData, cacheKey, fetchPage, forceRefresh) ==
    IsFetched(fetchedData, cacheKey, fetchPage)

\* the cache check of the thunk
CacheHit(fetchedData, cacheKey, fetchPage, forceRefresh) ==
    ~forceRefresh /\ IsFetched(fetchedData, cacheKey, fetchPage)

selectShouldFetchForCurrentPage(st) ==
    LET cacheKey == KeyOfFilters(st.filters)
        fetchPage == displayPageToFetchPage(st.pagination.currentPage)
    IN  \/ cacheKey \notin DOMAIN st.fetchedData
        \/ ~st.fetchedData[cacheKey].fetched
        \/ ~Includes(st.fetchedData[cacheKey].fetchedPages, fetchPage)

----------------------------------------------------------------------------
(* Initial state *)

initialFilters ==
    [query |-> EmptyStr, artist |-> EmptyStr, dateFrom |-> EmptyStr,
     dateTo |-> EmptyStr, medium |-> EmptyStr, source |-> "all"]

initialState ==
    [items |-> <<>>,
     detailedItems |-> <<>>,
     status |-> "idle",
     error |-> NULL,
     pagination |-> [currentPage |-> 1,
                     pageSize |-> DISPLAY_PAGE_SIZE,
                     totalItems |-> [rijksmuseum |-> 0, harvardartmuseums |-> 0, all |-> 0],
                     totalPages |-> 0],
     filters |-> initialFilters,
     fetchedData |-> <<>>]

----------------------------------------------------------------------------
(* Reducers of artworkSlice, as functions of the slice state *)

\* payload.<field> !== undefined ? payload.<field> : state.filters.<field>
PayloadOr(payload, field, old) ==
    IF field \in DOMAIN payload THEN payload[field] ELSE old

setFilterReducer(st, payload) ==
    [st EXCEPT
        !.filters = [query    |-> PayloadOr(payload, "query", st.filters.query),
                     artist   |-> PayloadOr(payload, "artist", st.filters.artist),
                     dateFrom |-> PayloadOr(payload, "dateFrom", st.filters.dateFrom),
                     dateTo   |-> PayloadOr(payload, "dateTo", st.filters.dateTo),
                     medium   |-> PayloadOr(payload, "medium", st.filters.medium),
                     source   |-> PayloadOr(payload, "source", st.filters.source)],
        !.pagination.currentPage = 1]

resetFiltersReducer(st) ==
    [st EXCEPT !.filters = initialFilters, !.pagination.currentPage = 1]

setPageReducer(st, page) ==
    [st EXCEPT !.pagination.currentPage = page]

\* a clearArtworks that empties items and leaves the fetch record
clearArtworksReducerKeepingCache(st) ==
    [st EXCEPT !.items = <<>>, !.pagination.currentPage = 1]

clearArtworksReducer(st) ==
    [st EXCEPT !.items = <<>>, !.fetchedData = <<>>, !.pagination.currentPage = 1]

pendingReducer(st) ==
    [st EXCEPT !.status = "loading"]

ItemIds(items) == {items[i].id : i \in 1..Len(items)}

\* a merge that appends the incoming records without looking at their ids
MergeArtworksKeepingAll(items, incoming) ==
    items \o incoming

\* a merge that lets an incoming record replace the stored record of its id
MergeArtworksOverwriting(items, incoming) ==
    LET existingIds == ItemIds(items)
        newUniqueArtworks == SelectSeq(incoming, LAMBDA artwork : artwork.id \notin existingIds)
        replaced == [i \in 1..Len(items) |->
                        IF \E k \in 1..Len(incoming) : incoming[k].id = items[i].id
                        THEN incoming[CHOOSE k \in 1..Len(incoming) : incoming[k].id = items[i].id]
                        ELSE items[i]]
    IN  replaced \o newUniqueArtworks

\* a merge that puts the new records in front of the collection
MergeArtworksPrepending(items, incoming) ==
    LET existingIds == ItemIds(items)
        newUniqueArtworks == SelectSeq(incoming, LAMBDA artwork : artwork.id \notin existingIds)
    IN  newUniqueArtworks \o items

\* existingIds is computed once, before any incoming record is added
MergeArtworks(items, incoming) ==
    LET existingIds == ItemIds(items)
        newUniqueArtworks == SelectSeq(incoming, LAMBDA artwork : artwork.id \notin existingIds)
    IN  items \o newUniqueArtworks

\* a cache write that creates the entry of a new key without its first page
RecordFetchedWithoutFirstPage(fetchedData, cacheKey, fetchPage) ==
    IF cacheKey \notin DOMAIN fetchedData
    THEN [k \in DOMAIN fetchedData \cup {cacheKey} |->
            IF k = cacheKey
            THEN [fetched |-> TRUE, fetchedPages |-> <<>>]
            ELSE fetchedData[k]]
    ELSE [fetchedData EXCEPT
            ![cacheKey] = [fetched |-> TRUE,
                           fetchedPages |->
                               IF Includes(@.fetchedPages, fetchPage)
                               THEN @.fetchedPages
                               ELSE Append(@.fetchedPages, fetchPage)]]

\* a cache write that keeps only the page written last
RecordFetchedReplacing(fetchedData, cacheKey, fetchPage) ==
    [k \in DOMAIN fetchedData \cup {cacheKey} |->
        IF k = cacheKey
        THEN [fetched |-> TRUE, fetchedPages |-> <<fetchPage>>]
        ELSE fetchedData[k]]

\* a cache write that pushes the page without the includes test
RecordFetchedAppending(fetchedData, cacheKey, fetchPage) ==
    IF cacheKey \notin DOMAIN fetchedData
    THEN [k \in DOMAIN fetchedData \cup {cacheKey} |->
            IF k = cacheKey
            THEN [fetched |-> TRUE, fetchedPages |-> <<fetchPage>>]
            ELSE fetchedData[k]]
    ELSE [fetchedData EXCEPT
            ![cacheKey] = [fetched |-> TRUE,
                           fetchedPages |-> Append(@.fetchedPages, fetchPage)]]

RecordFetched(fetchedData, cacheKey, fetchPage) ==
    IF cacheKey \notin DOMAIN fetchedData
    THEN [k \in DOMAIN fetchedData \cup {cacheKey} |->
            IF k = cacheKey
            THEN [fetched |-> TRUE, fetchedPages |-> <<fetchPage>>]
            ELSE fetchedData[k]]
    ELSE [fetchedData EXCEPT
            ![cacheKey] = [fetched |-> TRUE,
                           fetchedPages |->
                               IF Includes(@.fetchedPages, fetchPage)
                               THEN @.fetchedPages
                               ELSE Append(@.fetchedPages, fetchPage)]]

\* the guard under which the fulfilled reducer merges and writes the cache
MergesPayload(payload) ==
    payload.newFetch /\ Len(payload.artworks) > 0

\* a fulfilled reducer that writes the cache and leaves the records out of items
fulfilledReducerRecordingUnmerged(st, payload) ==
    LET merges == MergesPayload(payload)
    IN  [st EXCEPT
            !.status = "succeeded",
            !.error = NULL,
            !.fetchedData = IF merges /\ payload.cacheKey # <<>>
                            THEN RecordFetched(@, payload.cacheKey, payload.fetchPage)
                            ELSE @,
            !.pagination = [currentPage |-> payload.pagination.currentPage,
                            pageSize    |-> payload.pagination.pageSize,
                            totalItems  |-> payload.pagination.totalItems,
                            totalPages  |-> payload.pagination.totalPages],
            !.filters = payload.filters]

fulfilledReducer(st, payload) ==
    LET merges == MergesPayload(payload)
    IN  [st EXCEPT
            !.status = "succeeded",
            !.error = NULL,
            !.items = IF merges THEN MergeArtworks(st.items, payload.artworks) ELSE @,
            !.fetchedData = IF merges /\ payload.cacheKey # <<>>
                            THEN RecordFetched(@, payload.cacheKey, payload.fetchPage)
                            ELSE @,
            !.pagination = [currentPage |-> payload.pagination.currentPage,
                            pageSize    |-> payload.pagination.pageSize,
                            totalItems  |-> payload.pagination.totalItems,
                            totalPages  |-> payload.pagination.totalPages],
            !.filters = payload.filters]

\* a rejected reducer that also drops what was loaded
rejectedReducerClearing(st, message) ==
    [st EXCEPT !.status = "failed",
               !.error = IF message = "" THEN "Failed to fetch artworks" ELSE message,
               !.items = <<>>,
               !.fetchedData = <<>>]

\* action.payload as string || 'Failed to fetch artworks'
rejectedReducer(st, message) ==
    [st EXCEPT !.status = "failed",
               !.error = IF message = "" THEN "Failed to fetch artworks" ELSE message]

----------------------------------------------------------------------------
(* The fetchArtworks thunk *)

FiltersOfArg(arg) ==
    [query |-> arg.query, artist |-> arg.artist, dateFrom |-> arg.dateFrom,
     dateTo |-> arg.dateTo, medium |-> arg.medium, source |-> arg.source]

ProviderCall(provider, page) ==
    [provider |-> provider, page |-> page, pageSize |-> FETCH_BATCH_SIZE]

\* the thunk at its first await, or on its way to the cache-hit return
StartThunk(st, arg) ==
    LET fetchPage == displayPageToFetchPage(arg.page)
        first == IF arg.source \in {"all", "rijksmuseum"} THEN "rijksmuseum" ELSE "harvardartmuseums"
    IN  [arg          |-> arg,
         cacheKey     |-> KeyOfFilters(FiltersOfArg(arg)),
         fetchPage    |-> fetchPage,
         artworks     |-> <<>>,
         rijksTotal   |-> st.pagination.totalItems.rijksmuseum,
         harvardTotal |-> st.pagination.totalItems.harvardartmuseums,
         pc           |-> first,
         calls        |-> <<ProviderCall(first, fetchPage)>>,
         stale        |-> FALSE,
         freshCache   |-> DOMAIN st.fetchedData = {}]

CacheHitPayload(st, arg) ==
    [artworks   |-> <<>>,
     newFetch   |-> FALSE,
     pagination |-> [currentPage |-> arg.page,
                     pageSize    |-> DISPLAY_PAGE_SIZE,
                     totalItems  |-> st.pagination.totalItems,
                     totalPages  |-> st.pagination.totalPages],
     filters    |-> FiltersOfArg(arg),
     cacheKey   |-> <<>>,
     fetchPage  |-> 0]

NewFetchPayload(t) ==
    LET totalAllItems == t.rijksTotal + t.harvardTotal
        source == t.arg.source
    IN  [artworks   |-> t.artworks,
         newFetch   |-> TRUE,
         pagination |-> [currentPage |-> t.arg.page,
                         pageSize    |-> DISPLAY_PAGE_SIZE,
                         totalItems  |-> [rijksmuseum |-> t.rijksTotal,
                                          harvardartmuseums |-> t.harvardTotal,
                                          all |-> totalAllItems],
                         totalPages  |-> Ceil(IF source = "all" THEN totalAllItems
                                              ELSE IF source = "rijksmuseum" THEN t.rijksTotal
                                              ELSE t.harvardTotal,
                                              DISPLAY_PAGE_SIZE)],
         filters    |-> FiltersOfArg(t.arg),
         cacheKey   |-> t.cacheKey,
         fetchPage  |-> t.fetchPage]

----------------------------------------------------------------------------
(* Bookkeeping of the model *)

NoReq == <<>>

NoProbe == [op |-> "none"]

Event(kind, req) == [kind |-> kind, req |-> req]

RemoveAt(seq, i) == SubSeq(seq, 1, i - 1) \o SubSeq(seq, i + 1, Len(seq))

\* the query the page shows: the filters and the current display page
ActiveQuery(st) == <<st.filters, st.pagination.currentPage>>

\* a thunk in flight becomes stale when the active query changes under it
MarkStale(thunks, old, new) ==
    IF ActiveQuery(old) = ActiveQuery(new)
    THEN thunks
    ELSE [i \in 1..Len(thunks) |-> [thunks[i] EXCEPT !.stale = TRUE]]

FetchArgs ==
    [query : QueryStrings, artist : {EmptyStr}, dateFrom : {EmptyStr}, dateTo : {EmptyStr},
     medium : {EmptyStr}, page : Pages, source : Sources, forceRefresh : BOOLEAN]

SetFilterPayloads ==
    {[query |-> q] : q \in QueryStrings} \cup {[source |-> s] : s \in Sources}

----------------------------------------------------------------------------
(* The fetchArtworkDetail thunk *)

\* a routing without the detail-cache check
DetailRouteSkippingCache(st, id) ==
    IF startsWith(id, "rijks-") THEN "rijksmuseum"
    ELSE IF startsWith(id, "harvard-") THEN "harvardartmuseums"
    ELSE "unknown"

\* a routing that sends every id without the Rijksmuseum prefix to Harvard
DetailRouteDefaultingToHarvard(st, id) ==
    IF id \in DOMAIN st.detailedItems THEN "cache"
    ELSE IF startsWith(id, "rijks-") THEN "rijksmuseum"
    ELSE "harvardartmuseums"

\* where the thunk goes after the detail-cache check
DetailRoute(st, id) ==
    IF id \in DOMAIN st.detailedItems THEN "cache"
    ELSE IF startsWith(id, "rijks-") THEN "rijksmuseum"
    ELSE IF startsWith(id, "harvard-") THEN "harvardartmuseums"
    ELSE "unknown"

\* the provider's fetchArtworkDetail(actualId) the thunk awaits
DetailCall(id, provider) ==
    [id |-> id, provider |-> provider,
     actualId |-> stripPrefix(id, IF provider = "rijksmuseum" THEN "rijks-" ELSE "harvard-")]

DetailErrors == {"Error fetching artwork details"}

\* what the provider's fetchArtworkDetail resolves to: <<the record>>, or <<>> for null
DetailResponses(id, provider) == {<<>>, <<Detail(id, provider)>>}

AllDetailResponses ==
    UNION {DetailResponses(id, provider) : id \in DetailIds, provider \in Sources \ {"all"}}

\* a detail reducer that appends the record whether or not its id is in items
detailFulfilledReducerAppending(st, payload) ==
    IF payload.artwork = <<>>
    THEN st
    ELSE LET artwork == payload.artwork[1]
         IN  [st EXCEPT
                !.detailedItems = [k \in DOMAIN @ \cup {artwork.id} |->
                                      IF k = artwork.id THEN artwork ELSE @[k]],
                !.items = Append(@, artwork)]

detailFulfilledReducer(st, payload) ==
    IF payload.artwork = <<>>
    THEN st
    ELSE LET artwork == payload.artwork[1]
             found == {i \in 1..Len(st.items) : st.items[i].id = artwork.id}
             index == IF found = {} THEN -1 ELSE CHOOSE i \in found : \A k \in found : i <= k
         IN  [st EXCEPT
                !.detailedItems = [k \in DOMAIN @ \cup {artwork.id} |->
                                      IF k = artwork.id THEN artwork ELSE @[k]],
                !.items = IF index # -1
                          THEN [@ EXCEPT ![index] = artwork]
                          ELSE Append(@, artwork)]

-----------------------------------------------------------------------------
(* The exhibitions slice (src/src/store/exhibitionsSlice.ts) and the item it *)
(* keeps in localStorage.  Titles, descriptions and ids are plain strings    *)
(* here: the slice never looks inside them.                                  *)

\* a description that is undefined: the optional field of UserExhibition left out
NoDescription == "undefined"

ExhibitionIds == {"ex-1", "ex-2"}
ExhibitionTitles == {"t", "u"}
ExhibitionDescriptions == {"", "d"}
ExhibitionArtworkIds == {"rijks-1", "harvard-1"}
Timestamps == 1..MaxTime

UserExhibition(id, title, description, createdAt, updatedAt, artworkIds) ==
    [id |-> id, title |-> title, description |-> description,
     createdAt |-> createdAt, updatedAt |-> updatedAt, artworkIds |-> artworkIds]

\* localStorage.getItem of a key that was never set: null
NoItem == <<>>

\* a stored text that is no JSON
CorruptText == [corrupt |-> TRUE]

\* JSON.stringify of one exhibition: a property whose value is undefined is left out
StringifyExhibition(exhibition) ==
    [key \in IF exhibition.description = NoDescription
             THEN DOMAIN exhibition \ {"description"}
             ELSE DOMAIN exhibition |-> exhibition[key]]

\* JSON.stringify of the list: the text of the array
JSONstringify(list) ==
    [json |-> [k \in 1..Len(list) |-> StringifyExhibition(list[k])]]

\* reading a property the parsed object does not have gives undefined
ParseExhibition(object) ==
    UserExhibition(object.id, object.title,
                   IF "description" \in DOMAIN object THEN object.description ELSE NoDescription,
                   object.createdAt, object.updatedAt, object.artworkIds)

\* JSON.parse: <<value>>, or <<>> when it throws
JSONparse(text) ==
    IF "json" \in DOMAIN text
    THEN <<[k \in 1..Len(text.json) |-> ParseExhibition(text.json[k])]>>
    ELSE <<>>

loadExhibitionsFromStorage(item) ==
    IF item = NoItem THEN <<>>
    ELSE IF JSONparse(item[1]) = <<>> THEN <<>>
    ELSE JSONparse(item[1])[1]

exhibitionsInitialState(item) ==
    [userExhibitions |-> loadExhibitionsFromStorage(item), status |-> "idle", error |-> NULL]

\* localStorage.setItem('userExhibitions', JSON.stringify(exhibitions)); the write succeeds
saveExhibitionsToStorage(list) == <<JSONstringify(list)>>

\* what a reducer of the slice leaves behind: the slice state and the stored item
Saved(st, list) ==
    [state |-> [st EXCEPT !.userExhibitions = list], item |-> saveExhibitionsToStorage(list)]

NotSaved(st, item, list) ==
    [state |-> [st EXCEPT !.userExhibitions = list], item |-> item]

\* Array.prototype.find / findIndex on the id: the first exhibition with it, 0 if none
FindExhibition(list, id) ==
    IF \E k \in 1..Len(list) : list[k].id = id
    THEN CHOOSE k \in 1..Len(list) :
            /\ list[k].id = id
            /\ \A j \in 1..(k - 1) : list[j].id # id
    ELSE 0

createExhibitionReducer(st, item, payload, id, now) ==
    Saved(st, Append(st.userExhibitions,
                     UserExhibition(id, payload.title,
                                    IF "description" \in DOMAIN payload /\ payload.description # ""
                                    THEN payload.description ELSE "",
                                    now, now, <<>>)))

updateExhibitionReducer(st, item, payload, now) ==
    LET index == FindExhibition(st.userExhibitions, payload.id)
        old == st.userExhibitions[index]
        titled == IF "title" \in DOMAIN payload /\ payload.title # ""
                  THEN [old EXCEPT !.title = payload.title] ELSE old
        described == IF "description" \in DOMAIN payload
                     THEN [titled EXCEPT !.description = payload.description] ELSE titled
    IN  IF index = 0 THEN NotSaved(st, item, st.userExhibitions)
        ELSE Saved(st, [st.userExhibitions EXCEPT ![index] = [described EXCEPT !.updatedAt = now]])

deleteExhibitionReducer(st, item, id) ==
    Saved(st, SelectSeq(st.userExhibitions, LAMBDA exhibition : exhibition.id # id))

addArtworkToExhibitionReducer(st, item, payload, now) ==
    LET index == FindExhibition(st.userExhibitions, payload.exhibitionId)
        old == st.userExhibitions[index]
    IN  IF index # 0 /\ ~(\E k \in 1..Len(old.artworkIds) : old.artworkIds[k] = payload.artworkId)
        THEN Saved(st, [st.userExhibitions EXCEPT
                            ![index] = [old EXCEPT !.artworkIds = Append(@, payload.artworkId),
                                                   !.updatedAt = now]])
        ELSE NotSaved(st, item, st.userExhibitions)

\* the reducer without its call of saveExhibitionsToStorage
removeArtworkFromExhibitionReducerNotSaving(st, item, payload, now) ==
    LET index == FindExhibition(st.userExhibitions, payload.exhibitionId)
        old == st.userExhibitions[index]
    IN  IF index = 0 THEN NotSaved(st, item, st.userExhibitions)
        ELSE NotSaved(st, item, [st.userExhibitions EXCEPT
                            ![index] = [old EXCEPT
                                            !.artworkIds = SelectSeq(@, LAMBDA id : id # payload.artworkId),
                                            !.updatedAt = now]])

removeArtworkFromExhibitionReducer(st, item, payload, now) ==
    LET index == FindExhibition(st.userExhibitions, payload.exhibitionId)
        old == st.userExhibitions[index]
    IN  IF index = 0 THEN NotSaved(st, item, st.userExhibitions)
        ELSE Saved(st, [st.userExhibitions EXCEPT
                            ![index] = [old EXCEPT
                                            !.artworkIds = SelectSeq(@, LAMBDA id : id # payload.artworkId),
                                            !.updatedAt = now]])

importExhibitionsReducer(st, item, payload) ==
    LET existingIds == {st.userExhibitions[k].id : k \in 1..Len(st.userExhibitions)}
        newExhibitions == SelectSeq(payload, LAMBDA exhibition : exhibition.id \notin existingIds)
    IN  Saved(st, st.userExhibitions \o newExhibitions)

----------------------------------------------------------------------------
(* Actions *)

Init ==
    /\ artworks = initialState
    /\ inflight = <<>>
    /\ details = <<>>
    /\ last = Event("init", NoReq)
    /\ loaded = {}
    /\ dispatched = 0
    /\ probe = NoProbe
    /\ localStorage = NoItem
    /\ exhibitions = exhibitionsInitialState(localStorage)

\* a step of a store action that is no thunk
Reduce(kind, new) ==
    /\ artworks' = new
    /\ inflight' = MarkStale(inflight, artworks, new)
    /\ last' = Event(kind, NoReq)
    /\ UNCHANGED <<details, loaded, dispatched, probe, exhibitions, localStorage>>

setFilter(payload) == Reduce("setFilter", setFilterReducer(artworks, payload))

resetFilters == Reduce("resetFilters", resetFiltersReducer(artworks))

setPage(page) == Reduce("setPage", setPageReducer(artworks, page))

clearArtworks ==
    /\ artworks' = clearArtworksReducer(artworks)
    /\ inflight' = MarkStale(inflight, artworks, artworks')
    /\ last' = Event("clearArtworks", NoReq)
    /\ loaded' = {}
    /\ UNCHANGED <<details, dispatched, probe, exhibitions, localStorage>>

ThunksInFlight == Len(inflight) + Len(details)

\* dispatch(fetchArtworks(arg)): pending, then the payload creator up to its
\* first await, or to its return on the cache-hit path (and then fulfilled)
fetchArtworks(arg) ==
    LET t == StartThunk(artworks, arg)
    IN  /\ dispatched < MaxDispatch
        /\ dispatched' = dispatched + 1
        /\ UNCHANGED <<details, loaded, probe, exhibitions, localStorage>>
        /\ IF CacheHit(artworks.fetchedData, t.cacheKey, t.fetchPage, arg.forceRefresh)
           THEN /\ artworks' = fulfilledReducer(pendingReducer(artworks), CacheHitPayload(artworks, arg))
                /\ inflight' = MarkStale(inflight, artworks, artworks')
                /\ last' = Event("cacheHit", <<[t EXCEPT !.calls = <<>>, !.pc = "done"]>>)
           ELSE /\ ThunksInFlight < MaxInFlight
                /\ artworks' = pendingReducer(artworks)
                /\ inflight' = Append(inflight, t)
                /\ last' = Event("dispatched", <<t>>)

\* the thunk returns its payload and fulfilled is reduced
Fulfil(i, t) ==
    LET payload == NewFetchPayload(t)
    IN  /\ artworks' = fulfilledReducer(artworks, payload)
        /\ inflight' = MarkStale(RemoveAt(inflight, i), artworks, artworks')
        /\ last' = Event("fulfilled", <<t>>)
        /\ loaded' = IF MergesPayload(payload)
                     THEN loaded \cup {<<t.cacheKey, t.arg.page>>}
                     ELSE loaded
        /\ UNCHANGED <<details, dispatched, probe, exhibitions, localStorage>>

\* rijksMuseumService.fetchArtworksList resolves
RijksResponds(i, response) ==
    /\ i \in 1..Len(inflight)
    /\ inflight[i].pc = "rijksmuseum"
    /\ LET t == [inflight[i] EXCEPT
                    !.artworks = @ \o response,
                    !.rijksTotal = Max(@, Len(response) * 10)]
       IN  IF t.arg.source = "all"
           THEN /\ inflight' = [inflight EXCEPT
                        ![i] = [t EXCEPT !.pc = "harvardartmuseums",
                                         !.calls = Append(@, ProviderCall("harvardartmuseums", t.fetchPage))]]
                /\ last' = Event("rijksResponse", <<t>>)
                /\ UNCHANGED <<artworks, details, loaded, dispatched, probe, exhibitions, localStorage>>
           ELSE Fulfil(i, [t EXCEPT !.pc = "done"])

\* harvardArtService.fetchArtworksList resolves
HarvardResponds(i, response) ==
    /\ i \in 1..Len(inflight)
    /\ inflight[i].pc = "harvardartmuseums"
    /\ LET t == [inflight[i] EXCEPT
                    !.artworks = @ \o response,
                    !.harvardTotal = Max(@, Len(response) * 10),
                    !.pc = "done"]
       IN  Fulfil(i, t)

\* the awaited fetchArtworksList throws: the catch block rejects with the message
ProviderFails(i, message) ==
    /\ i \in 1..Len(inflight)
    /\ inflight[i].pc \in {"rijksmuseum", "harvardartmuseums"}
    /\ artworks' = rejectedReducer(artworks, message)
    /\ inflight' = RemoveAt(inflight, i)
    /\ last' = Event("rejected", <<inflight[i]>>)
    /\ UNCHANGED <<details, loaded, dispatched, probe, exhibitions, localStorage>>

\* dispatch(fetchArtworkDetail(id)): no reducer handles its pending or rejected action
fetchArtworkDetail(id) ==
    LET route == DetailRoute(artworks, id)
    IN  /\ dispatched < MaxDispatch
        /\ dispatched' = dispatched + 1
        /\ UNCHANGED <<inflight, loaded, probe, exhibitions, localStorage>>
        /\ CASE route = "cache" ->
                  /\ artworks' = detailFulfilledReducer(artworks,
                                    [artwork |-> <<artworks.detailedItems[id]>>, fromCache |-> TRUE])
                  /\ last' = Event("detailFromCache", <<id, artworks.detailedItems[id]>>)
                  /\ UNCHANGED details
             [] route = "unknown" ->
                  /\ last' = Event("detailRejected", <<id, "Unknown artwork source">>)
                  /\ UNCHANGED <<artworks, details>>
             [] OTHER ->
                  /\ ThunksInFlight < MaxInFlight
                  /\ details' = Append(details, DetailCall(id, route))
                  /\ last' = Event("detailDispatched", <<DetailCall(id, route)>>)
                  /\ UNCHANGED artworks

\* the provider's fetchArtworkDetail resolves
DetailResponds(i, artwork) ==
    /\ i \in 1..Len(details)
    /\ artwork \in DetailResponses(details[i].id, details[i].provider)
    /\ artworks' = detailFulfilledReducer(artworks, [artwork |-> artwork, fromCache |-> FALSE])
    /\ details' = RemoveAt(details, i)
    /\ last' = Event("detailFulfilled", <<details[i].id>> \o artwork)
    /\ UNCHANGED <<inflight, loaded, dispatched, probe, exhibitions, localStorage>>

\* the provider's fetchArtworkDetail throws
DetailFails(i, message) ==
    /\ i \in 1..Len(details)
    /\ details' = RemoveAt(details, i)
    /\ last' = Event("detailRejected", <<details[i].id, message>>)
    /\ UNCHANGED <<artworks, inflight, loaded, dispatched, probe, exhibitions, localStorage>>

Next ==
    \/ \E payload \in SetFilterPayloads : setFilter(payload)
    \/ resetFilters
    \/ \E page \in Pages : setPage(page)
    \/ clearArtworks
    \/ \E arg \in FetchArgs : fetchArtworks(arg)
    \/ \E i \in 1..MaxInFlight, response \in RijksResponses : RijksResponds(i, response)
    \/ \E i \in 1..MaxInFlight, response \in HarvardResponses : HarvardResponds(i, response)
    \/ \E i \in 1..MaxInFlight, message \in ProviderErrors : ProviderFails(i, message)
    \/ \E id \in DetailIds : fetchArtworkDetail(id)
    \/ \E i \in 1..MaxInFlight, artwork \in AllDetailResponses : DetailResponds(i, artwork)
    \/ \E i \in 1..MaxInFlight, message \in DetailErrors : DetailFails(i, message)

Spec == Init /\ [][Next]_vars

----------------------------------------------------------------------------
(* getCacheKey on its own: every pair of filter tuples over short strings *)

\* the characters of the free-text values: a letter and the separator
Alphabet == {"a", ":"}

Strings == SeqsUpTo(Alphabet, MaxStrLen)

FilterTuples ==
    [query : Strings, artist : Strings, dateFrom : Strings, dateTo : Strings,
     medium : Strings, source : Sources]

ProbeCacheKey(left, right) ==
    /\ probe' = [op |-> "getCacheKey", left |-> left, right |-> right,
                 leftKey |-> KeyOfFilters(left), rightKey |-> KeyOfFilters(right)]
    /\ UNCHANGED <<artworks, inflight, details, last, loaded, dispatched, exhibitions, localStorage>>

KeyNext ==
    /\ probe = NoProbe
    /\ \E left \in FilterTuples, right \in FilterTuples : ProbeCacheKey(left, right)

KeySpec == Init /\ [][KeyNext]_vars

----------------------------------------------------------------------------
(* The store after a first visit: page 1 of the Rijksmuseum view was fetched and *)
(* fulfilled with one record; the behaviours go on from there                  *)

FirstFetchArg ==
    [query |-> EmptyStr, artist |-> EmptyStr, dateFrom |-> EmptyStr, dateTo |-> EmptyStr,
     medium |-> EmptyStr, page |-> 1, source |-> "rijksmuseum", forceRefresh |-> FALSE]

\* the first thunk when its Rijksmuseum call has resolved with one record
FirstFetchThunk ==
    [StartThunk(initialState, FirstFetchArg) EXCEPT
        !.artworks = @ \o <<Summary("rijks-1", "rijksmuseum")>>,
        !.rijksTotal = Max(@, 1 * 10),
        !.pc = "done"]

VisitedState ==
    fulfilledReducer(pendingReducer(initialState), NewFetchPayload(FirstFetchThunk))

VisitedInit ==
    /\ artworks = VisitedState
    /\ inflight = <<>>
    /\ details = <<>>
    /\ last = Event("fulfilled", <<FirstFetchThunk>>)
    /\ loaded = {<<FirstFetchThunk.cacheKey, FirstFetchArg.page>>}
    /\ dispatched = 0
    /\ probe = NoProbe
    /\ localStorage = NoItem
    /\ exhibitions = exhibitionsInitialState(localStorage)

VisitedNext ==
    \/ \E payload \in SetFilterPayloads : setFilter(payload)
    \/ \E arg \in FetchArgs : fetchArtworks(arg)
    \/ \E i \in 1..MaxInFlight, response \in RijksResponses : RijksResponds(i, response)
    \/ \E i \in 1..MaxInFlight, response \in HarvardResponses : HarvardResponds(i, response)
    \/ \E i \in 1..MaxInFlight, message \in ProviderErrors : ProviderFails(i, message)

VisitedSpec == VisitedInit /\ [][VisitedNext]_vars

----------------------------------------------------------------------------
(* selectPaginatedArtworks: the filters over items and the page cut out of them *)

\* an optional field that is not set
Undefined == <<"undefined">>

Lower(c) ==
    CASE c = "A" -> "a" [] c = "D" -> "d" [] c = "M" -> "m" [] c = "O" -> "o" [] OTHER -> c

toLowerCase(str) == [i \in 1..Len(str) |-> Lower(str[i])]

\* (field?.toLowerCase() || '')
LowerOrEmpty(field) == IF field = Undefined THEN <<>> ELSE toLowerCase(field)

\* String.prototype.includes
includes(str, search) ==
    \E i \in 0..(Len(str) - Len(search)) : SubSeq(str, i + 1, i + Len(search)) = search

Digits == {"0", "1", "2", "3", "4", "5", "6", "7", "8", "9"}

DigitValue(c) ==
    CASE c = "0" -> 0 [] c = "1" -> 1 [] c = "2" -> 2 [] c = "3" -> 3 [] c = "4" -> 4
      [] c = "5" -> 5 [] c = "6" -> 6 [] c = "7" -> 7 [] c = "8" -> 8 [] c = "9" -> 9

RECURSIVE DecimalValue(_)
DecimalValue(digits) ==
    IF digits = <<>> THEN 0
    ELSE 10 * DecimalValue(SubSeq(digits, 1, Len(digits) - 1)) + DigitValue(digits[Len(digits)])

\* parseInt(str, 10) of an unsigned string without leading white space: <<n>> for
\* the number its leading digits spell, <<>> for NaN when it starts with no digit
parseInt(str) ==
    LET n == CHOOSE k \in 0..Len(str) :
                 /\ \A i \in 1..k : str[i] \in Digits
                 /\ k < Len(str) => str[k + 1] \notin Digits
    IN  IF n = 0 THEN <<>> ELSE <<DecimalValue(SubSeq(str, 1, n))>>

\* Array.prototype.slice(start, end), negative indices counted from the end
slice(seq, start, end) ==
    LET len == Len(seq)
        from == IF start < 0 THEN Max(len + start, 0) ELSE IF start > len THEN len ELSE start
        to == IF end < 0 THEN Max(len + end, 0) ELSE IF end > len THEN len ELSE end
    IN  [k \in 1..Max(to - from, 0) |-> seq[from + k]]

\* the tests of the filter callbacks, each true when its filter is not set
PassesSource(item, source) ==
    source # "all" => item.source = source

PassesQuery(item, query) ==
    query # <<>> =>
        \/ includes(LowerOrEmpty(item.title), toLowerCase(query))
        \/ includes(LowerOrEmpty(item.artist), toLowerCase(query))

PassesArtist(item, artist) ==
    artist # <<>> => includes(LowerOrEmpty(item.artist), toLowerCase(artist))

PassesMedium(item, medium) ==
    medium # <<>> => includes(LowerOrEmpty(item.medium), toLowerCase(medium))

\* a date test that widens the range by five years on both sides
PassesDateBuffered(item, dateFrom, dateTo) ==
    (dateFrom # <<>> \/ dateTo # <<>>) =>
        /\ item.year # 0
        /\ dateFrom # <<>> => (parseInt(dateFrom) # <<>> /\ item.year >= parseInt(dateFrom)[1] - 5)
        /\ dateTo # <<>> => (parseInt(dateTo) # <<>> /\ item.year <= parseInt(dateTo)[1] + 5)

\* year 0 stands for a record without a year: !item.year is true for both
PassesDate(item, dateFrom, dateTo) ==
    (dateFrom # <<>> \/ dateTo # <<>>) =>
        /\ item.year # 0
        /\ dateFrom # <<>> => (parseInt(dateFrom) # <<>> /\ item.year >= parseInt(dateFrom)[1])
        /\ dateTo # <<>> => (parseInt(dateTo) # <<>> /\ item.year <= parseInt(dateTo)[1])

\* a selector that shows a record as soon as one filter that is set accepts it
selectPaginatedArtworksAnyFilter(items, f, currentPage, pageSize) ==
    LET filteredItems ==
            SelectSeq(items, LAMBDA item :
                \/ (f.source # "all" /\ PassesSource(item, f.source))
                \/ (f.query # <<>> /\ PassesQuery(item, f.query))
                \/ (f.artist # <<>> /\ PassesArtist(item, f.artist))
                \/ (f.medium # <<>> /\ PassesMedium(item, f.medium))
                \/ ((f.dateFrom # <<>> \/ f.dateTo # <<>>) /\ PassesDate(item, f.dateFrom, f.dateTo))
                \/ (f.source = "all" /\ f.query = <<>> /\ f.artist = <<>> /\ f.medium = <<>>
                        /\ f.dateFrom = <<>> /\ f.dateTo = <<>>))
        startIndex == (currentPage - 1) * pageSize
    IN  slice(filteredItems, startIndex, startIndex + pageSize)

\* the result function of the selector: one filter pass after the other, then the slice
selectPaginatedArtworks(items, f, currentPage, pageSize) ==
    LET bySource == SelectSeq(items, LAMBDA item : PassesSource(item, f.source))
        byQuery  == SelectSeq(bySource, LAMBDA item : PassesQuery(item, f.query))
        byArtist == SelectSeq(byQuery, LAMBDA item : PassesArtist(item, f.artist))
        byMedium == SelectSeq(byArtist, LAMBDA item : PassesMedium(item, f.medium))
        filteredItems == SelectSeq(byMedium, LAMBDA item : PassesDate(item, f.dateFrom, f.dateTo))
        startIndex == (currentPage - 1) * pageSize
        endIndex == startIndex + pageSize
    IN  slice(filteredItems, startIndex, endIndex)

----------------------------------------------------------------------------
(* The store driven with display pages that are no page: 0 and a negative one *)

InvalidPages == {0, -5}

InvalidPageArgs ==
    [query : QueryStrings, artist : {EmptyStr}, dateFrom : {EmptyStr}, dateTo : {EmptyStr},
     medium : {EmptyStr}, page : InvalidPages, source : Sources, forceRefresh : BOOLEAN]

InvalidPageNext ==
    \/ \E arg \in InvalidPageArgs : fetchArtworks(arg)
    \/ \E page \in InvalidPages : setPage(page)
    \/ \E i \in 1..MaxInFlight, response \in RijksResponses : RijksResponds(i, response)
    \/ \E i \in 1..MaxInFlight, response \in HarvardResponses : HarvardResponds(i, response)
    \/ \E i \in 1..MaxInFlight, message \in ProviderErrors : ProviderFails(i, message)

InvalidPageSpec == Init /\ [][InvalidPageNext]_vars

----------------------------------------------------------------------------
(* The pure helpers of the slice on their own, each applied to chosen inputs *)

\* the records a merged sequence is made of: list and detail records of two ids
MergeRecords ==
    {Summary(i, "rijksmuseum") : i \in RijksIds} \cup {Detail(i, "rijksmuseum") : i \in RijksIds}
    \cup {Summary(i, "harvardartmuseums") : i \in HarvardIds}
    \cup {Detail(i, "harvardartmuseums") : i \in HarvardIds}

MergeInputs == SeqsUpTo(MergeRecords, MaxMergeLen)

\* the merge of the fulfilled reducer, applied to an empty collection once and twice
ProbeMerge(incoming) ==
    /\ probe' = [op |-> "merge", incoming |-> incoming,
                 once |-> MergeArtworks(<<>>, incoming),
                 twice |-> MergeArtworks(MergeArtworks(<<>>, incoming), incoming)]
    /\ UNCHANGED <<artworks, inflight, details, last, loaded, dispatched, exhibitions, localStorage>>

\* displayPageToFetchPage applied to a display page
ProbeFetchPage(displayPage) ==
    /\ probe' = [op |-> "displayPageToFetchPage", displayPage |-> displayPage,
                 fetchPage |-> displayPageToFetchPage(displayPage)]
    /\ UNCHANGED <<artworks, inflight, details, last, loaded, dispatched, exhibitions, localStorage>>

\* records with the fields the filters read
SelectorRecords ==
    { [id |-> "rijks-1", source |-> "rijksmuseum", title |-> <<"A", "b">>,
       artist |-> <<"M", "o">>, medium |-> <<"o", "i", "l">>, description |-> Undefined,
       year |-> 1870],
      [id |-> "harvard-1", source |-> "harvardartmuseums", title |-> <<"b">>,
       artist |-> <<"M", "o">>, medium |-> Undefined, description |-> <<"a">>,
       year |-> 1890],
      [id |-> "rijks-2", source |-> "rijksmuseum", title |-> <<"c">>,
       artist |-> <<"D", "e">>, medium |-> <<"O", "i", "l">>, description |-> <<"m", "o">>,
       year |-> 1890],
      [id |-> "harvard-2", source |-> "harvardartmuseums", title |-> <<"m", "o">>,
       artist |-> <<"D", "e">>, medium |-> <<"i", "n", "k">>, description |-> Undefined,
       year |-> 0] }

\* the records in a fixed order, repeated to fill a collection of n records
RecordCycle ==
    [n \in Nat |->
        [i \in 1..n |->
            CHOOSE r \in SelectorRecords :
                r.id = <<"rijks-1", "harvard-1", "rijks-2", "harvard-2">>[(i % 4) + 1]]]

\* collections longer than one display page
LongLengths == {20, 21, 45}

SelectorItems ==
    SeqsUpTo(SelectorRecords, MaxSelectLen) \cup {RecordCycle[n] : n \in LongLengths}

SelectorDates == {<<>>, <<"1", "8", "8", "0">>, <<"1", "8", "9", "0">>, <<"x">>}

SelectorFilters ==
    [query : {<<>>, <<"m", "o">>, <<"A">>}, artist : {<<>>, <<"m", "o">>},
     dateFrom : SelectorDates, dateTo : SelectorDates,
     medium : {<<>>, <<"o", "i", "l">>}, source : Sources]

SelectorPages == {1, 2, 3}

\* selectPaginatedArtworks applied to a collection, the filters and a page
ProbeSelect(items, f, currentPage) ==
    /\ probe' = [op |-> "selectPaginatedArtworks", items |-> items, filters |-> f,
                 currentPage |-> currentPage,
                 pageSize |-> initialState.pagination.pageSize,
                 result |-> selectPaginatedArtworks(items, f, currentPage,
                                                    initialState.pagination.pageSize)]
    /\ UNCHANGED <<artworks, inflight, details, last, loaded, dispatched, exhibitions, localStorage>>

\* the query callback of the selector applied to one record
ProbeQuery(item, query) ==
    /\ probe' = [op |-> "queryFilter", item |-> item, query |-> query,
                 passes |-> PassesQuery(item, query)]
    /\ UNCHANGED <<artworks, inflight, details, last, loaded, dispatched, exhibitions, localStorage>>

\* the years on and next to the bounds of the date filters, and 0 for no year
DateProbeYears == {0, 1879, 1880, 1881, 1885, 1889, 1890, 1891}

DateProbeRecords ==
    {[id |-> "rijks-1", source |-> "rijksmuseum", title |-> <<"A", "b">>,
      artist |-> <<"M", "o">>, medium |-> Undefined, description |-> Undefined,
      year |-> y] : y \in DateProbeYears}

\* the date callback of the selector applied to one record
ProbeDate(item, dateFrom, dateTo) ==
    /\ probe' = [op |-> "dateFilter", item |-> item, dateFrom |-> dateFrom, dateTo |-> dateTo,
                 passes |-> PassesDate(item, dateFrom, dateTo)]
    /\ UNCHANGED <<artworks, inflight, details, last, loaded, dispatched, exhibitions, localStorage>>

PureNext ==
    \/ probe = NoProbe /\ \E incoming \in MergeInputs : ProbeMerge(incoming)
    \/ probe = NoProbe /\ \E displayPage \in 1..MaxDisplayPage : ProbeFetchPage(displayPage)
    \/ probe = NoProbe /\ \E items \in SelectorItems, f \in SelectorFilters,
                              currentPage \in SelectorPages :
                                 ProbeSelect(items, f, currentPage)
    \/ probe = NoProbe /\ \E item \in SelectorRecords, query \in {f.query : f \in SelectorFilters} :
                                 ProbeQuery(item, query)
    \/ probe = NoProbe /\ \E item \in DateProbeRecords, dateFrom \in SelectorDates,
                              dateTo \in SelectorDates :
                                 ProbeDate(item, dateFrom, dateTo)

PureSpec == Init /\ [][PureNext]_vars

-----------------------------------------------------------------------------
(* The exhibitions slice driven on its own: the store is created over a      *)
(* localStorage that holds nothing, a text that is no JSON, or a list saved  *)
(* before, and the actions of the slice are dispatched in any order          *)

StoredLists ==
    {<<>>,
     <<UserExhibition("ex-1", "t", "d", 1, 1, <<"rijks-1">>)>>,
     <<UserExhibition("ex-2", "u", NoDescription, 1, 2, <<>>)>>}

StoredItems == {NoItem, <<CorruptText>>} \cup {saveExhibitionsToStorage(list) : list \in StoredLists}

CreatePayloads ==
    [title : ExhibitionTitles] \cup [title : ExhibitionTitles, description : ExhibitionDescriptions]

UpdatePayloads ==
    [id : ExhibitionIds] \cup [id : ExhibitionIds, title : ExhibitionTitles \cup {""}]
        \cup [id : ExhibitionIds, description : ExhibitionDescriptions]

ArtworkPayloads == [exhibitionId : ExhibitionIds, artworkId : ExhibitionArtworkIds]

\* imported lists: one exhibition, one without a description, one id twice
ImportPayloads ==
    {<<UserExhibition("ex-1", "t", "", 1, 1, <<"harvard-1">>)>>,
     <<UserExhibition("ex-2", "u", NoDescription, 1, 1, <<>>)>>,
     <<UserExhibition("ex-2", "t", "d", 1, 1, <<>>), UserExhibition("ex-2", "u", "", 2, 2, <<>>)>>}

ExhibitionsInit ==
    /\ artworks = initialState
    /\ inflight = <<>>
    /\ details = <<>>
    /\ last = Event("init", NoReq)
    /\ loaded = {}
    /\ dispatched = 0
    /\ probe = NoProbe
    /\ localStorage \in StoredItems
    /\ exhibitions = exhibitionsInitialState(localStorage)

\* a dispatched action of the slice: the reducer runs and leaves the state and the item
ExhibitionStep(kind, result) ==
    /\ exhibitions' = result.state
    /\ localStorage' = result.item
    /\ last' = Event(kind, NoReq)
    /\ UNCHANGED <<artworks, inflight, details, loaded, dispatched, probe>>

\* uuidv4() gives an id no exhibition has
createExhibition(payload, id, now) ==
    /\ Len(exhibitions.userExhibitions) < MaxExhibitions
    /\ \A k \in 1..Len(exhibitions.userExhibitions) : exhibitions.userExhibitions[k].id # id
    /\ ExhibitionStep("createExhibition", createExhibitionReducer(exhibitions, localStorage, payload, id, now))

updateExhibition(payload, now) ==
    ExhibitionStep("updateExhibition", updateExhibitionReducer(exhibitions, localStorage, payload, now))

deleteExhibition(id) ==
    ExhibitionStep("deleteExhibition", deleteExhibitionReducer(exhibitions, localStorage, id))

addArtworkToExhibition(payload, now) ==
    ExhibitionStep("addArtworkToExhibition",
                   addArtworkToExhibitionReducer(exhibitions, localStorage, payload, now))

removeArtworkFromExhibition(payload, now) ==
    ExhibitionStep("removeArtworkFromExhibition",
                   removeArtworkFromExhibitionReducer(exhibitions, localStorage, payload, now))

importExhibitions(payload) ==
    /\ Len(importExhibitionsReducer(exhibitions, localStorage, payload).state.userExhibitions) <= MaxExhibitions
    /\ ExhibitionStep("importExhibitions", importExhibitionsReducer(exhibitions, localStorage, payload))

ExhibitionsNext ==
    \/ \E payload \in CreatePayloads, id \in ExhibitionIds, now \in Timestamps :
            createExhibition(payload, id, now)
    \/ \E payload \in UpdatePayloads, now \in Timestamps : updateExhibition(payload, now)
    \/ \E id \in ExhibitionIds : deleteExhibition(id)
    \/ \E payload \in ArtworkPayloads, now \in Timestamps : addArtworkToExhibition(payload, now)
    \/ \E payload \in ArtworkPayloads, now \in Timestamps : removeArtworkFromExhibition(payload, now)
    \/ \E payload \in ImportPayloads : importExhibitions(payload)

ExhibitionsSpec == ExhibitionsInit /\ [][ExhibitionsNext]_vars

-----------------------------------------------------------------------------
(* The artworks page browsing one provider: the Rijksmuseum view with no     *)
(* other filter, over a provider that serves a fixed ordered catalogue in    *)
(* batches of FETCH_BATCH_SIZE records.  The page dispatches fetchArtworks   *)
(* for the current display page when selectShouldFetchForCurrentPage says so *)
(* (src/src/pages/ArtworksPage/ArtworksPage.tsx:60-75) and the user jumps    *)
(* between display pages with setPage.                                       *)

\* the catalogue: two full batches and a part of a third
Catalogue ==
    [n \in 1..CatalogueSize |-> Summary("rijks-" \o ToString(n), "rijksmuseum")]

Min(a, b) == IF a <= b THEN a ELSE b

\* what fetchArtworksList({page: fetchPage, pageSize: 100}) resolves to
CatalogueBatch(fetchPage) ==
    SubSeq(Catalogue, (fetchPage - 1) * FETCH_BATCH_SIZE + 1,
           Min(fetchPage * FETCH_BATCH_SIZE, CatalogueSize))

\* the catalogue's records at positions (d-1)*20+1 .. d*20
CataloguePage(displayPage) ==
    SubSeq(Catalogue, (displayPage - 1) * DISPLAY_PAGE_SIZE + 1,
           Min(displayPage * DISPLAY_PAGE_SIZE, CatalogueSize))

\* display pages of the first, second and third batch
CataloguePages == {1, 3, 6, 11, 13}

\* the argument the page's effect dispatches with: query, page and source
PageFetchArg(st) ==
    [query |-> st.filters.query, artist |-> EmptyStr, dateFrom |-> EmptyStr, dateTo |-> EmptyStr,
     medium |-> EmptyStr, page |-> st.pagination.currentPage, source |-> st.filters.source,
     forceRefresh |-> FALSE]

\* the store after setFilter({source: 'rijksmuseum'})
CatalogueInit ==
    /\ artworks = setFilterReducer(initialState, [source |-> "rijksmuseum"])
    /\ inflight = <<>>
    /\ details = <<>>
    /\ last = Event("setFilter", NoReq)
    /\ loaded = {}
    /\ dispatched = 0
    /\ probe = NoProbe
    /\ localStorage = NoItem
    /\ exhibitions = exhibitionsInitialState(localStorage)

\* the effect of the page: it runs again only when one of its dependencies changed
PageFetches ==
    /\ selectShouldFetchForCurrentPage(artworks) = TRUE
    /\ \A k \in 1..Len(inflight) : inflight[k].arg # PageFetchArg(artworks)
    /\ fetchArtworks(PageFetchArg(artworks))

CatalogueResponds(i) ==
    /\ i \in 1..Len(inflight)
    /\ RijksResponds(i, CatalogueBatch(inflight[i].fetchPage))

CatalogueNext ==
    \/ \E page \in CataloguePages : setPage(page)
    \/ PageFetches
    \/ \E i \in 1..MaxInFlight : CatalogueResponds(i)

CatalogueSpec == CatalogueInit /\ [][CatalogueNext]_vars

----------------------------------------------------------------------------
(* Properties *)

\* the thunk the last step started or settled
LastThunk == last.req[1]

EnabledProviders(source) ==
    IF source = "all" THEN <<"rijksmuseum", "harvardartmuseums">> ELSE <<source>>

\* one fetchArtworksList call per enabled provider, for the batch page, 100 records
ExpectedCalls(source, fetchPage) ==
    [k \in 1..Len(EnabledProviders(source)) |->
        [provider |-> EnabledProviders(source)[k], page |-> fetchPage, pageSize |-> 100]]

\* C1: once a fetchArtworks(F, d) that went to the providers is fulfilled, whatever
\* the providers returned (the empty list included), (getCacheKey(F),
\* displayPageToFetchPage(d)) is recorded as fetched, selectShouldFetchForCurrentPage
\* is false and a following fetchArtworks(F, d) without forceRefresh hits the cache.
C1_CacheCoherency ==
    last.kind = "fulfilled" =>
        /\ IsFetched(artworks.fetchedData, LastThunk.cacheKey, LastThunk.fetchPage)
        /\ ~selectShouldFetchForCurrentPage(artworks)
        /\ CacheHit(artworks.fetchedData,
                    KeyOfFilters(FiltersOfArg(LastThunk.arg)),
                    displayPageToFetchPage(LastThunk.arg.page), FALSE)

\* C2: while a fetch for a cache key and batch page is in flight, a second request
\* without forceRefresh for the same key and batch does not call the providers again.
C2_NoDuplicateInFlight ==
    \A i, j \in 1..Len(inflight) :
        ( /\ i < j
          /\ inflight[i].cacheKey = inflight[j].cacheKey
          /\ inflight[i].fetchPage = inflight[j].fetchPage
          /\ ~inflight[j].arg.forceRefresh )
        => inflight[j].calls = <<>>

\* C3: the fulfilment of a fetch whose active query changed while it was in flight
\* leaves pagination.currentPage, totalItems and totalPages as they are.
C3_StaleFetchKeepsPagination ==
    [][ (last'.kind = "fulfilled" /\ last'.req[1].stale) =>
            /\ artworks'.pagination.currentPage = artworks.pagination.currentPage
            /\ artworks'.pagination.totalItems = artworks.pagination.totalItems
            /\ artworks'.pagination.totalPages = artworks.pagination.totalPages ]_vars

\* C4: in every reachable state no two elements of state.artworks.items share an id.
C4_ItemsUniqueById ==
    \A i, j \in 1..Len(artworks.items) :
        i # j => artworks.items[i].id # artworks.items[j].id

\* C5: when an 'all'-sources fetch ends with one provider failing, the records the
\* other provider returned are in items (the failure comes with the partial result).
C5_PartialFailureMerges ==
    (last.kind = "rejected" /\ LastThunk.arg.source = "all") =>
        \A k \in 1..Len(LastThunk.artworks) :
            LastThunk.artworks[k].id \in ItemIds(artworks.items)

\* C6: a rejected fetchArtworks changes only status (to 'failed') and error: neither
\* its dispatch nor its rejection touches items, detailedItems, fetchedData,
\* pagination or filters, so a (cache key, batch page) that was not recorded stays
\* unrecorded and a retry without forceRefresh goes to the providers again.
C6_FailedLoadNonDestructive ==
    [][ /\ last'.kind \in {"dispatched", "rijksResponse", "rejected"} =>
              /\ artworks'.items = artworks.items
              /\ artworks'.detailedItems = artworks.detailedItems
              /\ artworks'.fetchedData = artworks.fetchedData
              /\ artworks'.pagination = artworks.pagination
              /\ artworks'.filters = artworks.filters
        /\ last'.kind = "rejected" =>
              /\ artworks'.status = "failed"
              /\ artworks'.error \in ProviderErrors
              /\ ( ~IsFetched(artworks.fetchedData, last'.req[1].cacheKey, last'.req[1].fetchPage)
                   => ~CacheHit(artworks'.fetchedData, last'.req[1].cacheKey,
                                last'.req[1].fetchPage, FALSE) ) ]_vars

\* C6 witness: a fetch was rejected while earlier pages are loaded and recorded.
C6_Witness ==
    /\ last.kind = "rejected"
    /\ artworks.status = "failed"
    /\ Len(artworks.items) > 0
    /\ DOMAIN artworks.fetchedData # {}
    /\ ~IsFetched(artworks.fetchedData, LastThunk.cacheKey, LastThunk.fetchPage)

\* C7: two filter tuples that differ in at least one of query, artist, dateFrom,
\* dateTo, medium, source never get the same cache key.
C7_NoFalseCacheHits ==
    (probe.op = "getCacheKey" /\ probe.left # probe.right) => probe.leftKey # probe.rightKey

\* C8: fetchArtworks with forceRefresh=true never takes the cache-hit path: its
\* dispatch calls the first enabled provider for the batch page whether or not the
\* (cache key, batch page) is recorded, and by its fulfilment each enabled provider
\* was called once for that batch page.
C8_ForceRefreshBypassesCache ==
    /\ last.kind = "cacheHit" => ~LastThunk.arg.forceRefresh
    /\ (last.kind = "dispatched" /\ LastThunk.arg.forceRefresh) =>
            /\ LastThunk.calls = SubSeq(ExpectedCalls(LastThunk.arg.source,
                                            displayPageToFetchPage(LastThunk.arg.page)), 1, 1)
            /\ \E i \in 1..Len(inflight) : inflight[i] = LastThunk
    /\ (last.kind = "fulfilled" /\ LastThunk.arg.forceRefresh) =>
            LastThunk.calls = ExpectedCalls(LastThunk.arg.source,
                                            displayPageToFetchPage(LastThunk.arg.page))

\* C8 witness: a forceRefresh fetch went to the providers although its
\* (cache key, batch page) was recorded as fetched.
C8_Witness ==
    /\ last.kind = "dispatched"
    /\ LastThunk.arg.forceRefresh
    /\ IsFetched(artworks.fetchedData, LastThunk.cacheKey, LastThunk.fetchPage)

\* C9: once a load of display page d1 is fulfilled and recorded, a load of any d2 of
\* the same batch with the same filters and no forceRefresh makes zero provider
\* calls: it takes the cache-hit path and never goes in flight.
C9_RepeatedPageWithinBatch ==
    /\ (last.kind = "dispatched" /\ ~LastThunk.arg.forceRefresh) =>
            \A l \in loaded :
                ~( /\ l[1] = KeyOfFilters(FiltersOfArg(LastThunk.arg))
                   /\ displayPageToFetchPage(l[2]) = displayPageToFetchPage(LastThunk.arg.page) )
    /\ last.kind = "cacheHit" => LastThunk.calls = <<>>

\* C9 witness: display page 3 was served from the cache after only display page 1
\* of the same batch had been loaded.
C9_Witness ==
    /\ last.kind = "cacheHit"
    /\ LastThunk.calls = <<>>
    /\ LastThunk.arg.page = 3
    /\ <<LastThunk.cacheKey, 1>> \in loaded
    /\ <<LastThunk.cacheKey, 3>> \notin loaded

\* C10: from an empty cache, fetchArtworks(F, 1) without forceRefresh calls
\* fetchArtworksList exactly once on each provider enabled by F.source, with batch
\* page 1 and batch size 100, merges the results into items and records
\* (getCacheKey(F), 1) as fetched.
C10_FreshQuery ==
    ( /\ last.kind = "fulfilled"
      /\ LastThunk.freshCache
      /\ LastThunk.arg.page = 1
      /\ ~LastThunk.arg.forceRefresh ) =>
        /\ LastThunk.calls = ExpectedCalls(LastThunk.arg.source, 1)
        /\ \A k \in 1..Len(LastThunk.artworks) :
                LastThunk.artworks[k].id \in ItemIds(artworks.items)
        /\ IsFetched(artworks.fetchedData, KeyOfFilters(FiltersOfArg(LastThunk.arg)), 1)

\* C11: for every sequence A of records, merging A into an empty collection and
\* merging A again gives a collection of the size of merging A once.
C11_MergeIdempotentInSize ==
    probe.op = "merge" => Len(probe.twice) = Len(probe.once)

\* C11 witness: a sequence that repeats an id was merged once and twice.
C11_Witness ==
    /\ probe.op = "merge"
    /\ Len(probe.incoming) >= 2
    /\ Cardinality(ItemIds(probe.incoming)) < Len(probe.incoming)
    /\ probe.twice = probe.once

\* C12: a fulfilled fetchArtworks leaves every record already in items as it is and
\* where it is (incoming records are only appended); an item promoted to a detail
\* record stays the detail record when a later list fetch returns its id.
C12_ListMergeNeverOverwrites ==
    [][ last'.kind \in {"fulfilled", "cacheHit"} =>
            /\ Len(artworks'.items) >= Len(artworks.items)
            /\ \A i \in 1..Len(artworks.items) : artworks'.items[i] = artworks.items[i] ]_vars

\* C12 witness: a list fetch that returned the id of an item held as a detail
\* record was fulfilled, and the item is the detail record.
C12_Witness ==
    /\ last.kind = "fulfilled"
    /\ \E i \in 1..Len(artworks.items), k \in 1..Len(LastThunk.artworks) :
            /\ artworks.items[i].id = LastThunk.artworks[k].id
            /\ artworks.items[i].detail
            /\ ~LastThunk.artworks[k].detail

\* C13: a fulfilled fetchArtworkDetail that carries a detail record replaces the
\* element at the (first) position of the record's id when the id is in items, the
\* length, the other elements and their order unchanged, and appends the record at
\* the end when the id is absent.
C13_DetailPromotionPreservesIdentity ==
    [][ (last'.kind \in {"detailFulfilled", "detailFromCache"} /\ Len(last'.req) = 2) =>
            LET record == last'.req[2]
                items == artworks.items
            IN  IF record.id \in ItemIds(items)
                THEN /\ Len(artworks'.items) = Len(items)
                     /\ \E index \in 1..Len(items) :
                            /\ items[index].id = record.id
                            /\ \A k \in 1..(index - 1) : items[k].id # record.id
                            /\ artworks'.items = [items EXCEPT ![index] = record]
                ELSE artworks'.items = Append(items, record) ]_vars

\* C13 witness: the detail record of the first of two items arrived; it stands at
\* the first position and the list record of the other id is still behind it.
C13_Witness ==
    /\ last.kind = "detailFulfilled"
    /\ Len(last.req) = 2
    /\ Len(artworks.items) = 2
    /\ artworks.items[1] = last.req[2]
    /\ artworks.items[2].id # last.req[2].id
    /\ ~artworks.items[2].detail

\* C14: immediately after clearArtworks items is empty and fetchedData is empty, so
\* the page has to fetch and no request without forceRefresh hits the cache.
C14_InvalidationClearsBoth ==
    last.kind = "clearArtworks" =>
        /\ artworks.items = <<>>
        /\ DOMAIN artworks.fetchedData = {}
        /\ selectShouldFetchForCurrentPage(artworks)
        /\ \A arg \in FetchArgs :
                ~CacheHit(artworks.fetchedData, KeyOfFilters(FiltersOfArg(arg)),
                          displayPageToFetchPage(arg.page), FALSE)

\* C14 witness: clearArtworks came after a fetch had brought records (the totals
\* it estimated are still in pagination).
C14_Witness ==
    /\ last.kind = "clearArtworks"
    /\ artworks.pagination.totalItems.all > 0
    /\ artworks.items = <<>>
    /\ DOMAIN artworks.fetchedData = {}

\* C15: no step other than clearArtworks removes a key from fetchedData, removes a
\* page from a key's fetchedPages or sets fetched back to false.
C15_FetchRecordMonotonic ==
    [][ last'.kind # "clearArtworks" =>
            \A key \in DOMAIN artworks.fetchedData :
                /\ key \in DOMAIN artworks'.fetchedData
                /\ artworks.fetchedData[key].fetched => artworks'.fetchedData[key].fetched
                /\ \A k \in 1..Len(artworks.fetchedData[key].fetchedPages) :
                        Includes(artworks'.fetchedData[key].fetchedPages,
                                 artworks.fetchedData[key].fetchedPages[k]) ]_vars

\* C15 witness: a second batch page was recorded under a key that had one.
C15_Witness ==
    /\ last.kind = "fulfilled"
    /\ LastThunk.cacheKey \in DOMAIN artworks.fetchedData
    /\ Len(artworks.fetchedData[LastThunk.cacheKey].fetchedPages) = 2

\* C16: recording a (cache key, batch page) that is recorded changes nothing: after
\* a fulfilled fetch that was recorded, recording it once more gives the same
\* fetchedData, and no fetchedPages ever holds a page number twice.
C16_RecordFetchedIdempotent ==
    /\ \A key \in DOMAIN artworks.fetchedData :
            \A i, j \in 1..Len(artworks.fetchedData[key].fetchedPages) :
                i # j => artworks.fetchedData[key].fetchedPages[i]
                            # artworks.fetchedData[key].fetchedPages[j]
    /\ (last.kind = "fulfilled" /\ MergesPayload(NewFetchPayload(LastThunk))) =>
            RecordFetched(artworks.fetchedData, LastThunk.cacheKey, LastThunk.fetchPage)
                = artworks.fetchedData

\* C16 witness: a forceRefresh fetch of display page 3 was fulfilled and recorded
\* after display page 1 of the same key and batch had been; batch page 1 is there once.
C16_Witness ==
    /\ last.kind = "fulfilled"
    /\ LastThunk.arg.forceRefresh
    /\ LastThunk.arg.page = 3
    /\ <<LastThunk.cacheKey, 1>> \in loaded
    /\ <<LastThunk.cacheKey, 3>> \in loaded
    /\ artworks.fetchedData[LastThunk.cacheKey].fetchedPages = <<1>>

\* C17: for every display page d >= 1, displayPageToFetchPage(d) is the one b with
\* (b-1)*100 < d*20 <= b*100; pages 1..5 give batch 1, page 6 batch 2, page 25 batch 5.
C17_DisplayToBatchMapping ==
    probe.op = "displayPageToFetchPage" =>
        LET d == probe.displayPage
            b == probe.fetchPage
        IN  /\ (b - 1) * 100 < d * 20
            /\ d * 20 <= b * 100
            /\ d \in 1..5 => b = 1
            /\ d = 6 => b = 2
            /\ d = 25 => b = 5

\* C17 witness: display page 25 was mapped to batch 5.
C17_Witness ==
    /\ probe.op = "displayPageToFetchPage"
    /\ probe.displayPage = 25
    /\ probe.fetchPage = 5

\* C18: a load request or page change with display page <= 0 ends in an error: the
\* request is rejected without a provider call, no batch page below 1 is recorded
\* in the fetch cache and the current page never goes below 1.
C18_InvalidPageRejected ==
    /\ (last.kind \in {"dispatched", "rijksResponse", "fulfilled", "cacheHit", "rejected"}
            /\ LastThunk.arg.page <= 0)
        => (last.kind = "rejected" /\ LastThunk.calls = <<>>)
    /\ \A i \in 1..Len(inflight) : inflight[i].arg.page <= 0 => inflight[i].calls = <<>>
    /\ \A key \in DOMAIN artworks.fetchedData :
            \A k \in 1..Len(artworks.fetchedData[key].fetchedPages) :
                artworks.fetchedData[key].fetchedPages[k] >= 1
    /\ artworks.pagination.currentPage >= 1

\* C19: the page selectPaginatedArtworks returns is the slice
\* [(currentPage-1)*pageSize, currentPage*pageSize) of the records of items that
\* pass every filter that is set at once, in the order of items; it is empty when
\* the slice lies beyond them.
C19_FiltersAreConjunction ==
    probe.op = "selectPaginatedArtworks" =>
        LET f == probe.filters
            all == SelectSeq(probe.items, LAMBDA item :
                        /\ PassesSource(item, f.source)
                        /\ PassesQuery(item, f.query)
                        /\ PassesArtist(item, f.artist)
                        /\ PassesMedium(item, f.medium)
                        /\ PassesDate(item, f.dateFrom, f.dateTo))
            first == (probe.currentPage - 1) * probe.pageSize
            count == Max(0, (IF Len(all) < first + probe.pageSize THEN Len(all)
                             ELSE first + probe.pageSize) - first)
        IN  probe.result = [k \in 1..count |-> all[first + k]]

\* C19 witness: an artist filter and a date filter were set together and, of a
\* collection whose records each pass at least one of them, one record is shown.
C19_Witness ==
    /\ probe.op = "selectPaginatedArtworks"
    /\ probe.filters.artist # <<>>
    /\ probe.filters.dateFrom # <<>>
    /\ Len(probe.items) = 2
    /\ Len(probe.result) = 1
    /\ \A i \in 1..2 :
            \/ PassesArtist(probe.items[i], probe.filters.artist)
            \/ PassesDate(probe.items[i], probe.filters.dateFrom, probe.filters.dateTo)

\* C20: with a non-empty query q a record passes the query filter exactly when q
\* occurs, case-insensitively, in its title, in its artist or in its description.
C20_QueryMatchesThreeFields ==
    (probe.op = "queryFilter" /\ probe.query # <<>>) =>
        ( probe.passes <=>
            \/ includes(toLowerCase(probe.item.title), toLowerCase(probe.query))
            \/ includes(toLowerCase(probe.item.artist), toLowerCase(probe.query))
            \/ ( /\ probe.item.description # Undefined
                 /\ includes(toLowerCase(probe.item.description), toLowerCase(probe.query)) ) )

C22_TotalPagesFromFiltered ==
    last.kind \in {"fulfilled", "cacheHit"} =>
        LET f == artworks.filters
            filteredItems == SelectSeq(artworks.items, LAMBDA item :
                                /\ PassesSource(item, f.source)
                                /\ PassesQuery(item, f.query)
                                /\ PassesArtist(item, f.artist)
                                /\ PassesMedium(item, f.medium)
                                /\ PassesDate(item, f.dateFrom, f.dateTo))
        IN  artworks.pagination.totalPages
                = Ceil(Len(filteredItems), artworks.pagination.pageSize)

\* C23: fetchArtworkDetail(id) calls no provider when detailedItems[id] exists;
\* otherwise it makes one call, to the Rijksmuseum service for a 'rijks-' id and to
\* the Harvard service for a 'harvard-' id, with the id without its prefix.
C23_DetailCacheFirst ==
    [][ /\ last'.kind = "detailFromCache" =>
              /\ last'.req[1] \in DOMAIN artworks.detailedItems
              /\ details' = details
        /\ last'.kind = "detailDispatched" =>
              LET call == last'.req[1]
              IN  /\ call.id \notin DOMAIN artworks.detailedItems
                  /\ details' = Append(details, call)
                  /\ call.id = "rijks-1" =>
                        (call.provider = "rijksmuseum" /\ call.actualId = "1")
                  /\ call.id = "harvard-1" =>
                        (call.provider = "harvardartmuseums" /\ call.actualId = "1")
                  /\ call.id \in {"rijks-1", "harvard-1"} ]_vars

\* C23 witness: a detail was served from detailedItems while no detail call was open.
C23_Witness ==
    /\ last.kind = "detailFromCache"
    /\ last.req[1] \in DOMAIN artworks.detailedItems
    /\ details = <<>>

\* C24: fetchArtworkDetail for an id that is not in detailedItems and has neither
\* prefix is rejected with 'Unknown artwork source', calls no provider and leaves
\* items and detailedItems as they are; such an id never reaches a provider.
C24_UnknownSourceTerminal ==
    [][ /\ (last'.kind \in {"detailRejected", "detailFromCache", "detailFulfilled"}
                /\ last'.req[1] = "met-1") =>
              /\ last'.kind = "detailRejected"
              /\ last'.req[2] = "Unknown artwork source"
              /\ details' = details
              /\ artworks'.items = artworks.items
              /\ artworks'.detailedItems = artworks.detailedItems
        /\ last'.kind = "detailDispatched" => last'.req[1].id # "met-1" ]_vars

\* C24 witness: the request for 'met-1' was rejected while records were loaded.
C24_Witness ==
    /\ last.kind = "detailRejected"
    /\ last.req = <<"met-1", "Unknown artwork source">>
    /\ Len(artworks.items) > 0

\* C25: a fulfilled list fetch keeps items as a prefix and appends the received
\* records whose ids were not in items, in the order received; what it appends
\* has every Rijksmuseum record of the request before every Harvard record.
C25_MergeOrderAppendOnly ==
    [][ last'.kind = "fulfilled" =>
            LET items == artworks.items
                received == last'.req[1].artworks
                added == SubSeq(artworks'.items, Len(items) + 1, Len(artworks'.items))
            IN  /\ Len(artworks'.items) >= Len(items)
                /\ SubSeq(artworks'.items, 1, Len(items)) = items
                /\ added = SelectSeq(received, LAMBDA artwork : artwork.id \notin ItemIds(items))
                /\ \A i, j \in 1..Len(added) :
                        (added[i].source = "harvardartmuseums" /\ added[j].source = "rijksmuseum")
                            => j < i ]_vars

\* C25 witness: an 'all' fetch returned a Rijksmuseum and a Harvard record while
\* items held the detail record of the Harvard id: the detail record is still
\* first and the Rijksmuseum record, the only new id, stands behind it.
C25_Witness ==
    /\ last.kind = "fulfilled"
    /\ LastThunk.arg.source = "all"
    /\ Len(LastThunk.artworks) = 2
    /\ LastThunk.artworks[1].source = "rijksmuseum"
    /\ LastThunk.artworks[2].source = "harvardartmuseums"
    /\ Len(artworks.items) = 2
    /\ artworks.items[1].detail
    /\ artworks.items[1].id = "harvard-1"
    /\ artworks.items[2] = LastThunk.artworks[1]

\* C26: after every fulfilled fetchArtworks, from the providers or from the cache,
\* pagination.totalPages is ceil(E / 20), E being the total-items estimate of the
\* active filters.source (totalItems.all for 'all', else that source's estimate).
C26_OnePageCountConvention ==
    last.kind \in {"fulfilled", "cacheHit"} =>
        LET source == artworks.filters.source
            totalItems == artworks.pagination.totalItems
            E == IF source = "all" THEN totalItems.all
                 ELSE IF source = "rijksmuseum" THEN totalItems.rijksmuseum
                 ELSE totalItems.harvardartmuseums
        IN  artworks.pagination.totalPages = Ceil(E, 20)


\* C27: every action of the exhibitions slice that changes userExhibitions leaves
\* under the storage key the serialisation of the whole current list, and after
\* any step the list read back from storage is the list in memory
C27_PersistedWholesale ==
    [][/\ exhibitions'.userExhibitions # exhibitions.userExhibitions
            => localStorage' = <<JSONstringify(exhibitions'.userExhibitions)>>
       /\ loadExhibitionsFromStorage(localStorage') = exhibitions'.userExhibitions]_vars

\* an artwork was removed from one of two exhibitions and the stored text is the
\* serialisation of both
C27_Witness ==
    /\ last.kind = "removeArtworkFromExhibition"
    /\ Len(exhibitions.userExhibitions) = 2
    /\ exhibitions.userExhibitions[1].artworkIds = <<"harvard-1">>
    /\ localStorage = <<JSONstringify(exhibitions.userExhibitions)>>

\* the <<cacheKey, batch page>> pairs that fetchedData marks as fetched
RecordedPages(st) ==
    UNION {{<<key, st.fetchedData[key].fetchedPages[k]>> :
                k \in 1..Len(st.fetchedData[key].fetchedPages)} : key \in DOMAIN st.fetchedData}

\* C28: a batch marked as fetched has its records in items.  Stated over the steps:
\* a pair enters fetchedData only at the fulfilment of a fetch of that key and
\* batch page; after a fulfilment whose pair is recorded every record the fetch
\* returned has its id in items; and no step takes an id out of items while it
\* leaves any pair recorded.
C28_FetchedImpliesPresent ==
    [][/\ \A pair \in RecordedPages(artworks') \ RecordedPages(artworks) :
            /\ last'.kind = "fulfilled"
            /\ pair = <<last'.req[1].cacheKey, last'.req[1].fetchPage>>
       /\ (/\ last'.kind = "fulfilled"
           /\ <<last'.req[1].cacheKey, last'.req[1].fetchPage>> \in RecordedPages(artworks'))
            => ItemIds(last'.req[1].artworks) \subseteq ItemIds(artworks'.items)
       /\ RecordedPages(artworks') \cap RecordedPages(artworks) # {}
            => ItemIds(artworks.items) \subseteq ItemIds(artworks'.items)]_vars

\* C28 witness: a detail was promoted into items and clearArtworks then emptied
\* them (the id is in detailedItems and not in items); a fetch fulfilled after
\* that, its batch is the only one recorded and its records are in items.
C28_Witness ==
    /\ last.kind = "fulfilled"
    /\ Len(LastThunk.artworks) > 0
    /\ \E id \in DOMAIN artworks.detailedItems : id \notin ItemIds(artworks.items)
    /\ loaded = {<<LastThunk.cacheKey, LastThunk.arg.page>>}
    /\ RecordedPages(artworks) = {<<LastThunk.cacheKey, LastThunk.fetchPage>>}
    /\ ItemIds(LastThunk.artworks) = ItemIds(artworks.items)

\* C30: while at least one fetchArtworks request is in flight the status is
\* 'loading'; it is 'succeeded' or 'failed' only when no list fetch is outstanding.
C30_StatusReflectsOutstanding ==
    Len(inflight) > 0 => artworks.status = "loading"

\* C29: browsing one source with no other filter, whenever the current display
\* page d needs no fetch the page selected for d is the catalogue's records at
\* positions (d-1)*20+1 .. d*20, in whatever order the display pages were visited.
C29_PageShowsOwnBatch ==
    ~selectShouldFetchForCurrentPage(artworks)
        => selectPaginatedArtworks(artworks.items, artworks.filters,
                                   artworks.pagination.currentPage, artworks.pagination.pageSize)
            = CataloguePage(artworks.pagination.currentPage)

====
